---- MODULE Spec2Model ----
(***************************************************************************)
(* Model of stress.py: the batch / chunk scheduler of stress_test, the     *)
(* request worker request_random_endpoint, the statistics that stress_test *)
(* prints, and the KeyboardInterrupt handler of the __main__ block.        *)
(*                                                                         *)
(* Conventions                                                             *)
(*  - durations are whole seconds;                                         *)
(*  - HTTP status codes are the decimal strings "200", "500" so that they  *)
(*    share a sort with the tag "Error" that the except branch stores;     *)
(*  - an optional dictionary key (the "error" key of an outcome) is a      *)
(*    sequence of length 0 (absent) or 1 (present);                        *)
(*  - a quotient a/b that Python computes in floating point is kept as the *)
(*    pair [num |-> a, den |-> b];                                         *)
(*  - a url is the sequence of BASE_URL, the literal text of the endpoint  *)
(*    template and the decimal digits of the parameter.                    *)
(***************************************************************************)
EXTENDS Integers, Sequences, FiniteSets, TLC

\* ------------------------------------------------------------------------
\* Bounds of the exploration
\* ------------------------------------------------------------------------
MaxBatch == 3
MaxIter == 3
MaxRequests == 3
MaxCap == 2
MaxLiveRequests == 2

\* ------------------------------------------------------------------------
\* Configuration (module level constants of stress.py)
\* ------------------------------------------------------------------------
\* two entries of the catalog ENDPOINTS
ENDPOINTS == <<"/fibonacci/{n}", "/pi/{n}">>

N_RANGES == [e \in {"/fibonacci/{n}", "/pi/{n}"} |->
               IF e = "/fibonacci/{n}" THEN <<1, 200>> ELSE <<1, 20>>]

\* N_RANGES.get(endpoint, (1, 100))
RangeOf(endpoint) ==
  IF endpoint \in DOMAIN N_RANGES THEN N_RANGES[endpoint] ELSE <<1, 100>>

\* variant of line 33: a draw that can exceed n_max by one
randintPastMax(idx, n_min, n_max) == IF idx % 2 = 0 THEN n_min ELSE n_max + 1

\* random.randint(n_min, n_max). The draws that are explored: the lower end
\* for a request of even index in its batch, the upper end for one of odd
\* index
randint(idx, n_min, n_max) == IF idx % 2 = 0 THEN n_min ELSE n_max

\* the status codes and the exceptions of requests.get that are explored
HttpStatuses == {"200", "500"}
TransportErrors == {"ConnectTimeout", "ConnectionError"}

\* the outcomes of requests.get(url, timeout=10) that are explored, each with
\* the elapsed wall clock seconds: a response below the timeout and one that
\* takes as long as the timeout, a refused connection, a timeout
Replies ==
  { [what |-> "200", secs |-> 1], [what |-> "200", secs |-> 10],
    [what |-> "500", secs |-> 1],
    [what |-> "ConnectionError", secs |-> 1],
    [what |-> "ConnectTimeout", secs |-> 10] }

VARIABLES
  batch_size,      \* parameter of stress_test
  iterations,      \* parameter of stress_test
  MAX_WORKERS,     \* the concurrency cap
  catalog,         \* the value of the global ENDPOINTS
  pc,              \* position of the controller (main) thread
  it,              \* number of values the iterator of range(iterations) gave
  i,               \* the Python variable i
  j,               \* the Python variable j (chunk offset)
  chunk_size,
  futures,         \* the futures of the executor of the current chunk
  results,
  batch_success,
  all_times,
  success_count,
  total_count,
  endpoint_stats,
  out,             \* what was printed and the sleeps taken, in order
  raised,          \* the exception that is propagating, or "none"
  intAt,           \* pc at which the interrupt arrived, or "none"
  exit_code        \* {} while the process runs, {status} once it has exited

vars == <<batch_size, iterations, MAX_WORKERS, catalog, pc, it, i, j, chunk_size,
          futures, results, batch_success, all_times, success_count,
          total_count, endpoint_stats, out, raised, intAt, exit_code>>

config == <<batch_size, iterations, MAX_WORKERS, catalog>>
cumulative == <<all_times, success_count, total_count, endpoint_stats>>

\* ------------------------------------------------------------------------
\* Helpers on sequences
\* ------------------------------------------------------------------------
Min2(a, b) == IF a <= b THEN a ELSE b

RECURSIVE SumSeq(_)
SumSeq(s) == IF s = <<>> THEN 0 ELSE Head(s) + SumSeq(Tail(s))

RECURSIVE MinSeq(_)
MinSeq(s) == IF Len(s) = 1 THEN s[1] ELSE Min2(s[1], MinSeq(Tail(s)))

RECURSIVE MaxSeq(_)
MaxSeq(s) ==
  IF Len(s) = 1 THEN s[1]
  ELSE LET m == MaxSeq(Tail(s)) IN IF s[1] >= m THEN s[1] ELSE m

Count(s, P(_)) == Cardinality({k \in 1..Len(s) : P(s[k])})

Prefix(s, n) == SubSeq(s, 1, Min2(n, Len(s)))

Event(e, v) == [ev |-> e, val |-> v]

Events(e) == SelectSeq(out, LAMBDA x : x.ev = e)

\* sorted(s): ascending and stable
RECURSIVE InsertAsc(_, _)
InsertAsc(x, s) ==
  IF s = <<>> THEN <<x>>
  ELSE IF x < Head(s) THEN <<x>> \o s
       ELSE <<Head(s)>> \o InsertAsc(x, Tail(s))

RECURSIVE sorted(_)
sorted(s) ==
  IF s = <<>> THEN <<>>
  ELSE InsertAsc(s[Len(s)], sorted(SubSeq(s, 1, Len(s) - 1)))

\* sorted(rs, key=lambda r: r["time"], reverse=True): descending and stable
RECURSIVE InsertByTimeDesc(_, _)
InsertByTimeDesc(r, s) ==
  IF s = <<>> THEN <<r>>
  ELSE IF r.time > Head(s).time THEN <<r>> \o s
       ELSE <<Head(s)>> \o InsertByTimeDesc(r, Tail(s))

RECURSIVE SortedByTimeDesc(_)
SortedByTimeDesc(rs) ==
  IF rs = <<>> THEN <<>>
  ELSE InsertByTimeDesc(rs[Len(rs)], SortedByTimeDesc(SubSeq(rs, 1, Len(rs) - 1)))

Frac(a, b) == [num |-> a, den |-> b]

\* ------------------------------------------------------------------------
\* Statistics of the overall report
\* ------------------------------------------------------------------------
\* variant of line 122: statistics.median_high, the upper middle value
medianHigh(s) == Frac(sorted(s)[Len(s) \div 2 + 1], 1)

\* statistics.median of a non-empty series
median(s) ==
  LET srt == sorted(s)
      n == Len(s)
  IN IF n % 2 = 1 THEN Frac(srt[(n + 1) \div 2], 1)
     ELSE Frac(srt[n \div 2] + srt[n \div 2 + 1], 2)

\* variant of line 123: round(len(all_times) * 0.95)
P95IndexRounded(n) == (95 * n + 50) \div 100

\* int(len(all_times) * 0.95), a 0-based index
P95Index(n) == (95 * n) \div 100

\* ------------------------------------------------------------------------
\* request_random_endpoint
\* ------------------------------------------------------------------------
\* A string that is formatted or parsed is a sequence of pieces: BASE_URL,
\* the literal text of a template, the replacement field {n}, and single
\* decimal digits.
BASE_URL == "https://fibbun.notacow.dev"

Placeholder == "{n}"

DigitChars == <<"0", "1", "2", "3", "4", "5", "6", "7", "8", "9">>

\* the literal text and the replacement field of an endpoint template
Parts(endpoint) ==
  CASE endpoint = "/fibonacci/{n}" -> <<"/fibonacci/", Placeholder>>
    [] endpoint = "/pi/{n}" -> <<"/pi/", Placeholder>>
    [] endpoint = "/unlisted/{n}" -> <<"/unlisted/", Placeholder>>
    [] OTHER -> <<endpoint>>

\* str(n) for n >= 0: the decimal digits, most significant first
RECURSIVE Digits(_)
Digits(n) ==
  IF n < 10 THEN <<DigitChars[n + 1]>>
  ELSE Append(Digits(n \div 10), DigitChars[(n % 10) + 1])

\* endpoint.format(n=n): the replacement field becomes str(n)
RECURSIVE Format(_, _)
Format(parts, n) ==
  IF parts = <<>> THEN <<>>
  ELSE (IF Head(parts) = Placeholder THEN Digits(n) ELSE <<Head(parts)>>)
         \o Format(Tail(parts), n)

\* BASE_URL + endpoint.format(n=n)
Url(endpoint, n) == <<BASE_URL>> \o Format(Parts(endpoint), n)

\* variant of line 45: every HTTP response counts as a success
IsSuccessAnyResponse(status) == status \in HttpStatuses

\* response.status_code == 200
IsSuccess(status) == status = "200"

\* variant of line 47: the except clause catches no transport failure
CaughtNothing(e) == FALSE

\* except requests.exceptions.RequestException
Caught(e) == e \in TransportErrors

\* the dictionary of the try branch
ResponseOutcome(rid, endpoint, n, status, t) ==
  [rid |-> rid, url |-> Url(endpoint, n), endpoint |-> endpoint,
   status |-> status, time |-> t, error |-> <<>>,
   success |-> IsSuccess(status)]

\* the dictionary of the except branch
ErrorOutcome(rid, endpoint, n, e, t) ==
  [rid |-> rid, url |-> Url(endpoint, n), endpoint |-> endpoint,
   status |-> "Error", time |-> t, error |-> <<e>>,
   success |-> FALSE]

\* a future of executor.map; rid = <<batch number, index in the batch>>
NewFuture(rid) ==
  [st |-> "queued", rid |-> rid, endpoint |-> "", n |-> 0,
   res |-> <<>>, exc |-> "none"]

InFlight == {k \in 1..Len(futures) : futures[k].st = "running"}

\* lines 31..36: a worker picks the work item up and samples the request;
\* random.choice of an empty catalog raises IndexError, outside the try
StartRequest(k) ==
  /\ k \in 1..Len(futures)
  /\ futures[k].st = "queued"
  /\ IF catalog = <<>>
     THEN futures' = [futures EXCEPT ![k].st = "failed",
                                     ![k].exc = "IndexError"]
     ELSE \E e \in 1..Len(catalog) :
            LET range == RangeOf(catalog[e]) IN
            futures' = [futures EXCEPT
                          ![k].st = "running",
                          ![k].endpoint = catalog[e],
                          ![k].n = randint(futures[k].rid[2], range[1], range[2])]
  /\ UNCHANGED <<config, pc, it, i, j, chunk_size, results, batch_success,
                 cumulative, out, raised, intAt, exit_code>>

\* variant of lines 37..55: the worker itself records the elapsed time in
\* the cumulative series before it returns its outcome
FinishRequestRecording(k) ==
  /\ k \in 1..Len(futures)
  /\ futures[k].st = "running"
  /\ \E reply \in Replies :
       LET f == futures[k] IN
       /\ futures' =
            IF reply.what \in HttpStatuses
            THEN [futures EXCEPT ![k].st = "done",
                    ![k].res = <<ResponseOutcome(f.rid, f.endpoint, f.n,
                                                 reply.what, reply.secs)>>]
            ELSE IF Caught(reply.what)
            THEN [futures EXCEPT ![k].st = "done",
                    ![k].res = <<ErrorOutcome(f.rid, f.endpoint, f.n,
                                              reply.what, reply.secs)>>]
            ELSE [futures EXCEPT ![k].st = "failed", ![k].exc = reply.what]
       /\ all_times' = Append(all_times, reply.secs)
  /\ UNCHANGED <<config, pc, it, i, j, chunk_size, results, batch_success,
                 success_count, total_count, endpoint_stats, out, raised,
                 intAt, exit_code>>

\* lines 37..55: the request returns a response or fails
FinishRequest(k) ==
  /\ k \in 1..Len(futures)
  /\ futures[k].st = "running"
  /\ \E reply \in Replies :
       LET f == futures[k] IN
       futures' =
         IF reply.what \in HttpStatuses
         THEN [futures EXCEPT ![k].st = "done",
                 ![k].res = <<ResponseOutcome(f.rid, f.endpoint, f.n,
                                              reply.what, reply.secs)>>]
         ELSE IF Caught(reply.what)
         THEN [futures EXCEPT ![k].st = "done",
                 ![k].res = <<ErrorOutcome(f.rid, f.endpoint, f.n,
                                           reply.what, reply.secs)>>]
         ELSE [futures EXCEPT ![k].st = "failed", ![k].exc = reply.what]
  /\ UNCHANGED <<config, pc, it, i, j, chunk_size, results, batch_success,
                 cumulative, out, raised, intAt, exit_code>>

\* ------------------------------------------------------------------------
\* stress_test: the controller
\* ------------------------------------------------------------------------
\* delay=1, the default of the parameter
delay == 1

\* the slice [:5] of the slowest responses
SLOWEST == 5

Init ==
  /\ batch_size \in 0..MaxBatch
  /\ iterations \in 0..MaxIter
  /\ batch_size * iterations <= MaxRequests
  /\ MAX_WORKERS \in 1..MaxCap
  /\ catalog = ENDPOINTS
  /\ pc = "start"
  /\ it = 0
  /\ i = 0
  /\ j = 0
  /\ chunk_size = 0
  /\ futures = <<>>
  /\ results = <<>>
  /\ batch_success = 0
  /\ all_times = <<>>
  /\ success_count = 0
  /\ total_count = 0
  /\ endpoint_stats = <<>>
  /\ out = <<>>
  /\ raised = "none"
  /\ intAt = "none"
  /\ exit_code = {}

\* an exception that no handler catches ends the process with status 1
Crash(e) ==
  /\ raised' = e
  /\ pc' = "crashed"
  /\ exit_code' = {1}

\* lines 58..64
Start ==
  /\ pc = "start"
  /\ out' = Append(out, Event("start", <<batch_size, iterations, MAX_WORKERS>>))
  /\ pc' = "for"
  /\ UNCHANGED <<config, it, i, j, chunk_size, futures, results,
                 batch_success, cumulative, raised, intAt, exit_code>>

\* variant of line 66: a loop that tests the variable i, which the loop of
\* line 102 assigns
HasNextByVariable(n, stop) == IF n = 0 THEN 0 < stop ELSE i + 1 < stop

\* for i in range(iterations): does the iterator give another value
HasNext(n, stop) == n < stop

\* for i in range(iterations): the value the iterator gives after n values
LoopValue(n, cur) == n

\* lines 66..71: the next batch begins, or the loop is left
ForNext ==
  /\ pc = "for"
  /\ IF HasNext(it, iterations)
     THEN /\ i' = LoopValue(it, i)
          /\ it' = it + 1
          /\ out' = Append(out, Event("header", <<i' + 1, iterations>>))
          /\ results' = <<>>
          /\ j' = 0
          /\ pc' = "chunk_next"
     ELSE /\ pc' = "report"
          /\ UNCHANGED <<i, it, out, results, j>>
  /\ UNCHANGED <<config, chunk_size, futures, batch_success, cumulative,
                 raised, intAt, exit_code>>

\* variant of line 73: every chunk is a full chunk
ChunkSizeFull(cap, size, offset) == cap

\* variant of line 73: the chunk takes the rest of the batch
ChunkSizeRest(cap, size, offset) == size - offset

\* line 73
ChunkSize(cap, size, offset) == Min2(cap, size - offset)

\* lines 72..74: the next chunk begins, or the chunk loop is left;
\* j is the value range(0, batch_size, MAX_WORKERS) gives next. range raises
\* ValueError for a step of 0 and is empty for a negative step
ChunkNext ==
  /\ pc = "chunk_next"
  /\ IF MAX_WORKERS = 0
     THEN /\ Crash("ValueError")
          /\ UNCHANGED <<chunk_size, futures>>
     ELSE IF MAX_WORKERS > 0 /\ j < batch_size
     THEN /\ chunk_size' = ChunkSize(MAX_WORKERS, batch_size, j)
          /\ futures' = <<>>
          /\ pc' = "submit"
          /\ UNCHANGED <<raised, exit_code>>
     ELSE /\ pc' = "merge"
          /\ UNCHANGED <<chunk_size, futures, raised, exit_code>>
  /\ UNCHANGED <<config, it, i, j, results, batch_success, cumulative, out,
                 intAt>>

\* line 75, executor.map: one work item is submitted per element of
\* range(chunk_size)
Submit ==
  /\ pc = "submit"
  /\ futures' = Append(futures, NewFuture(<<it, j + Len(futures)>>))
  /\ pc' = IF Len(futures) + 1 >= chunk_size THEN "collect" ELSE "submit"
  /\ UNCHANGED <<config, it, i, j, chunk_size, results, batch_success,
                 cumulative, out, raised, intAt, exit_code>>

\* variant of line 75: the results are not awaited
AllReturnedNoWait(fs) == TRUE

\* list(...) of line 75 has every result
AllReturned(fs) == \A k \in 1..Len(fs) : fs[k].st = "done"

\* the first future, in submission order, whose call raised, once every
\* future before it has returned; 0 when there is none
FirstFailed(fs) ==
  LET F == {k \in 1..Len(fs) :
              /\ fs[k].st = "failed"
              /\ \A m \in 1..(k - 1) : fs[m].st = "done"}
  IN IF F = {} THEN 0 ELSE CHOOSE k \in F : TRUE

\* Future.cancel() of the futures that no worker has picked up
CancelQueued(fs) ==
  [k \in 1..Len(fs) |->
     IF fs[k].st = "queued" THEN [fs[k] EXCEPT !.st = "cancelled"] ELSE fs[k]]

\* the results list(...) has, in submission order
Outcomes(fs) ==
  LET done == SelectSeq(fs, LAMBDA f : f.st = "done")
  IN [k \in 1..Len(done) |-> done[k].res[1]]

\* variant of line 78: the pause is taken after every chunk
MoreChunksAlways(offset, size, total) == TRUE

\* line 78: another chunk follows this one
MoreChunks(offset, size, total) == offset + size < total

\* lines 75..78: the results of the chunk are collected in submission order
CollectChunk ==
  /\ pc = "collect"
  /\ IF AllReturned(futures)
     THEN /\ results' = results \o Outcomes(futures)
          /\ pc' = IF MoreChunks(j, chunk_size, batch_size) THEN "pause"
                   ELSE "exit_with"
          /\ UNCHANGED <<futures, raised>>
     ELSE /\ FirstFailed(futures) # 0
          /\ raised' = futures[FirstFailed(futures)].exc
          /\ futures' = CancelQueued(futures)
          /\ pc' = "unwind_with"
          /\ UNCHANGED results
  /\ UNCHANGED <<config, it, i, j, chunk_size, batch_success, cumulative,
                 out, intAt, exit_code>>

\* line 79
PauseChunk ==
  /\ pc = "pause"
  /\ out' = Append(out, Event("pause", j))
  /\ pc' = "exit_with"
  /\ UNCHANGED <<config, it, i, j, chunk_size, futures, results,
                 batch_success, cumulative, raised, intAt, exit_code>>

\* executor.shutdown(wait=True): no work item is queued or running
Joined(fs) == \A k \in 1..Len(fs) : fs[k].st \notin {"queued", "running"}

\* variant of line 72: range(0, batch_size, 1)
RangeNextByOne(cur, step) == cur + 1

\* line 72: the value range(0, batch_size, step) gives after the value cur
RangeNext(cur, step) == cur + step

\* line 74, the end of the with block, and the step of the range of line 72
ExitWith ==
  /\ pc = "exit_with"
  /\ Joined(futures)
  /\ futures' = <<>>
  /\ j' = RangeNext(j, MAX_WORKERS)
  /\ pc' = "chunk_next"
  /\ UNCHANGED <<config, it, i, chunk_size, results, batch_success,
                 cumulative, out, raised, intAt, exit_code>>

\* line 82
Times(rs) == [k \in 1..Len(rs) |-> rs[k].time]

\* variant of line 83: every outcome is counted
BatchSuccessAll(rs) == Len(rs)

\* line 83
BatchSuccess(rs) == Count(rs, LAMBDA r : r.success)

\* line 92, on a defaultdict(list)
AppendTo(stats, endpoint, t) ==
  [e \in DOMAIN stats \cup {endpoint} |->
     IF e = endpoint
     THEN (IF e \in DOMAIN stats THEN Append(stats[e], t) ELSE <<t>>)
     ELSE stats[e]]

\* lines 91..92
RECURSIVE CollectEndpoints(_, _)
CollectEndpoints(stats, rs) ==
  IF rs = <<>> THEN stats
  ELSE CollectEndpoints(AppendTo(stats, Head(rs).endpoint, Head(rs).time),
                        Tail(rs))

\* lines 81..92: the batch is merged into the cumulative statistics
MergeBatch ==
  /\ pc = "merge"
  /\ batch_success' = BatchSuccess(results)
  /\ all_times' = all_times \o Times(results)
  /\ success_count' = success_count + batch_success'
  /\ total_count' = total_count + Len(results)
  /\ endpoint_stats' = CollectEndpoints(endpoint_stats, results)
  /\ pc' = "print_batch"
  /\ UNCHANGED <<config, it, i, j, chunk_size, futures, results, out,
                 raised, intAt, exit_code>>

\* lines 95..98 as printed for a batch that has outcomes
BatchEvents(b, rs, succ) ==
  << Event("batch_done", b),
     Event("rate", [success |-> succ, total |-> Len(rs),
                    pct |-> Frac(succ * 100, Len(rs))]),
     Event("times", [min |-> MinSeq(Times(rs)), max |-> MaxSeq(Times(rs)),
                     avg |-> Frac(SumSeq(Times(rs)), Len(rs))]) >>

\* lines 95..98: the batch summary; line 96 divides by len(results)
PrintBatch ==
  /\ pc = "print_batch"
  /\ IF Len(results) = 0
     THEN /\ out' = Append(out, Event("batch_done", it))
          /\ Crash("ZeroDivisionError")
     ELSE /\ out' = out \o BatchEvents(it, results, batch_success)
          /\ pc' = "slowest"
          /\ UNCHANGED <<raised, exit_code>>
  /\ UNCHANGED <<config, it, i, j, chunk_size, futures, results,
                 batch_success, cumulative, intAt>>

\* lines 103..106: one line of the slowest responses
SlowLine(r) ==
  IF r.success
  THEN [mark |-> "ok", url |-> r.url, kind |-> "time", text |-> "",
        secs |-> r.time]
  ELSE IF r.error # <<>>
  THEN [mark |-> "fail", url |-> r.url, kind |-> "error",
        text |-> r.error[1], secs |-> r.time]
  ELSE [mark |-> "fail", url |-> r.url, kind |-> "status",
        text |-> r.status, secs |-> r.time]

\* variant of line 102: the first five outcomes, not sorted
SlowestUnsorted(rs) == Prefix(rs, SLOWEST)

\* line 102
Slowest(rs) == Prefix(SortedByTimeDesc(rs), SLOWEST)

\* lines 101..106 as printed
SlowestEvent(rs) ==
  Event("slowest", [k \in 1..Len(Slowest(rs)) |-> SlowLine(Slowest(rs)[k])])

\* the value of i after the loop of line 102
AfterSlowest(cur, rs) == IF Slowest(rs) = <<>> THEN cur ELSE Len(Slowest(rs)) - 1

\* lines 101..106: the slowest responses; the loop assigns i
PrintSlowest ==
  /\ pc = "slowest"
  /\ out' = Append(out, SlowestEvent(results))
  /\ i' = AfterSlowest(i, results)
  /\ pc' = "tail"
  /\ UNCHANGED <<config, it, j, chunk_size, futures, results, batch_success,
                 cumulative, raised, intAt, exit_code>>

\* lines 108..109
BatchTail ==
  /\ pc = "tail"
  /\ IF i < iterations - 1
     THEN /\ out' = Append(out, Event("waiting", delay))
          /\ pc' = "delay"
     ELSE /\ pc' = "for"
          /\ UNCHANGED out
  /\ UNCHANGED <<config, it, i, j, chunk_size, futures, results,
                 batch_success, cumulative, raised, intAt, exit_code>>

\* line 110
Delay ==
  /\ pc = "delay"
  /\ out' = Append(out, Event("delay", delay))
  /\ pc' = "for"
  /\ UNCHANGED <<config, it, i, j, chunk_size, futures, results,
                 batch_success, cumulative, raised, intAt, exit_code>>

\* lines 113..115: line 115 divides by total_count
PrintOverall ==
  /\ pc = "report"
  /\ IF total_count = 0
     THEN /\ out' = Append(out, Event("overall", total_count))
          /\ Crash("ZeroDivisionError")
     ELSE /\ out' = out \o
               << Event("overall", total_count),
                  Event("overall_rate",
                        [success |-> success_count, total |-> total_count,
                         pct |-> Frac(success_count * 100, total_count)]) >>
          /\ pc' = "report_times"
          /\ UNCHANGED <<raised, exit_code>>
  /\ UNCHANGED <<config, it, i, j, chunk_size, futures, results,
                 batch_success, cumulative, intAt>>

\* lines 119..122
Summary(ts) ==
  [min |-> MinSeq(ts), max |-> MaxSeq(ts),
   avg |-> Frac(SumSeq(ts), Len(ts)), median |-> median(ts)]

\* lines 117..123: line 123 indexes the sorted series
PrintTimes ==
  /\ pc = "report_times"
  /\ IF all_times = <<>>
     THEN /\ pc' = "report_endpoints"
          /\ UNCHANGED <<out, raised, exit_code>>
     ELSE IF P95Index(Len(all_times)) < Len(all_times)
     THEN /\ out' = out \o
               << Event("overall_times", Summary(all_times)),
                  Event("p95", sorted(all_times)[P95Index(Len(all_times)) + 1]) >>
          /\ pc' = "report_endpoints"
          /\ UNCHANGED <<raised, exit_code>>
     ELSE /\ out' = Append(out, Event("overall_times", Summary(all_times)))
          /\ Crash("IndexError")
  /\ UNCHANGED <<config, it, i, j, chunk_size, futures, results,
                 batch_success, cumulative, intAt>>

\* variant of line 130: t <= 10
EndpointLineAtMost(ts) ==
  [avg |-> Frac(SumSeq(ts), Len(ts)), max |-> MaxSeq(ts),
   success |-> Frac(Count(ts, LAMBDA t : t <= 10) * 100, Len(ts))]

\* lines 129..131
EndpointLine(ts) ==
  [avg |-> Frac(SumSeq(ts), Len(ts)), max |-> MaxSeq(ts),
   success |-> Frac(Count(ts, LAMBDA t : t < 10) * 100, Len(ts))]

\* lines 126..132, and the normal end of the process
PrintEndpoints ==
  /\ pc = "report_endpoints"
  /\ out' = Append(out, Event("endpoints",
               [e \in {x \in DOMAIN endpoint_stats : endpoint_stats[x] # <<>>}
                  |-> EndpointLine(endpoint_stats[e])]))
  /\ pc' = "done"
  /\ exit_code' = {0}
  /\ UNCHANGED <<config, it, i, j, chunk_size, futures, results,
                 batch_success, cumulative, raised, intAt>>

\* ------------------------------------------------------------------------
\* KeyboardInterrupt and the __main__ block
\* ------------------------------------------------------------------------
\* positions inside the with block of line 74
WithPcs == {"submit", "collect", "pause", "exit_with"}

\* positions of the batch loop, lines 58..110
BatchPcs == {"start", "for", "chunk_next", "merge", "print_batch", "slowest",
             "tail", "delay"} \cup WithPcs

\* positions of the overall report, lines 113..132
ReportPcs == {"report", "report_times", "report_endpoints"}

\* the frame of stress_test is left by an exception: its locals are gone
DropFrame ==
  /\ it' = 0
  /\ i' = 0
  /\ j' = 0
  /\ chunk_size' = 0
  /\ futures' = <<>>
  /\ results' = <<>>
  /\ batch_success' = 0
  /\ all_times' = <<>>
  /\ success_count' = 0
  /\ total_count' = 0
  /\ endpoint_stats' = <<>>

\* variant of line 139: exit(1)
HandlerExitOne ==
  /\ out' = Append(out, Event("stop", 0))
  /\ exit_code' = {1}
  /\ pc' = "stopped"
  /\ raised' = "none"

\* lines 137..139: the handler of the __main__ block prints and exits
Handler ==
  /\ out' = Append(out, Event("stop", 0))
  /\ exit_code' = {0}
  /\ pc' = "stopped"
  /\ raised' = "none"

\* the interrupt is raised in the main thread, wherever it is in stress_test.
\* Inside the with block the block is left only after shutdown(wait=True),
\* which runs the work items still queued. An interrupt that arrives while
\* the result iterator of executor.map waits cancels the futures still
\* queued; one that arrives while executor.map submits, or after the last
\* submit and before list(...) has entered the iterator, cancels nothing.
\* Elsewhere the exception reaches the handler at once.
Interrupt ==
  /\ intAt = "none"
  /\ raised = "none"
  /\ pc \in BatchPcs \cup ReportPcs
  /\ intAt' = pc
  /\ IF pc \in WithPcs
     THEN /\ futures' \in IF pc = "collect"
                          THEN {CancelQueued(futures), futures}
                          ELSE {futures}
          /\ pc' = "unwind_with"
          /\ raised' = "KeyboardInterrupt"
          /\ UNCHANGED <<it, i, j, chunk_size, results, batch_success,
                         cumulative, out, exit_code>>
     ELSE /\ DropFrame
          /\ Handler
  /\ UNCHANGED config

\* line 74: the with block is left by an exception, after shutdown(wait=True);
\* a KeyboardInterrupt reaches the handler, any other exception ends the
\* process
UnwindWith ==
  /\ pc = "unwind_with"
  /\ Joined(futures)
  /\ DropFrame
  /\ IF raised = "KeyboardInterrupt"
     THEN Handler
     ELSE /\ pc' = "crashed"
          /\ exit_code' = {1}
          /\ UNCHANGED <<out, raised>>
  /\ UNCHANGED <<config, intAt>>

\* ------------------------------------------------------------------------
\* Specifications
\* ------------------------------------------------------------------------
\* a run that no interrupt reaches
Run ==
  \/ Start
  \/ ForNext
  \/ ChunkNext
  \/ Submit
  \/ \E k \in 1..Len(futures) : StartRequest(k)
  \/ \E k \in 1..Len(futures) : FinishRequest(k)
  \/ CollectChunk
  \/ PauseChunk
  \/ ExitWith
  \/ MergeBatch
  \/ PrintBatch
  \/ PrintSlowest
  \/ BatchTail
  \/ Delay
  \/ PrintOverall
  \/ PrintTimes
  \/ PrintEndpoints

Next ==
  \/ Run
  \/ Interrupt
  \/ UnwindWith

Spec == Init /\ [][Next]_vars

\* every thread that can take a step eventually takes one, and every request
\* returns: the run has no interrupt
LiveInit ==
  /\ Init
  /\ batch_size >= 1
  /\ iterations >= 1
  /\ batch_size * iterations <= MaxLiveRequests

LiveSpec == LiveInit /\ [][Run]_vars /\ WF_vars(Run)

\* the configurations that are explored for the module level globals: a cap
\* that is negative, 0 or positive; the catalog of the model, an empty
\* catalog, and a catalog whose endpoint has no entry in N_RANGES
ConfigInit ==
  /\ batch_size \in 1..MaxBatch
  /\ iterations \in 1..MaxIter
  /\ batch_size * iterations <= MaxLiveRequests
  /\ MAX_WORKERS \in (0 - 1)..MaxCap
  /\ catalog \in {ENDPOINTS, <<>>, <<"/unlisted/{n}">>}
  /\ pc = "start"
  /\ it = 0
  /\ i = 0
  /\ j = 0
  /\ chunk_size = 0
  /\ futures = <<>>
  /\ results = <<>>
  /\ batch_success = 0
  /\ all_times = <<>>
  /\ success_count = 0
  /\ total_count = 0
  /\ endpoint_stats = <<>>
  /\ out = <<>>
  /\ raised = "none"
  /\ intAt = "none"
  /\ exit_code = {}

\* the runs of every explored configuration of the globals
ConfigSpec == ConfigInit /\ [][Next]_vars

\* ------------------------------------------------------------------------
\* The overall report on longer series
\* ------------------------------------------------------------------------
MaxSeries == 22

\* the state of stress_test(batch_size=Len(rs), iterations=1) when its only
\* batch, a single chunk that returned the outcomes rs, has been merged and
\* printed and the loop of line 66 has been left
AfterOneBatch(rs, cap) ==
  /\ batch_size = Len(rs)
  /\ iterations = 1
  /\ MAX_WORKERS = cap
  /\ catalog = ENDPOINTS
  /\ pc = "report"
  /\ it = 1
  /\ i = AfterSlowest(0, rs)
  /\ j = cap
  /\ chunk_size = Len(rs)
  /\ futures = <<>>
  /\ results = rs
  /\ batch_success = BatchSuccess(rs)
  /\ all_times = Times(rs)
  /\ success_count = BatchSuccess(rs)
  /\ total_count = Len(rs)
  /\ endpoint_stats = CollectEndpoints(<<>>, rs)
  /\ out = << Event("start", <<Len(rs), 1, cap>>), Event("header", <<1, 1>>) >>
           \o BatchEvents(1, rs, BatchSuccess(rs))
           \o << SlowestEvent(rs) >>
  /\ raised = "none"
  /\ intAt = "none"
  /\ exit_code = {}

\* the elapsed seconds of a batch of n requests that are explored: 1..13 in
\* an order that the stride a and the offset b scramble
SeriesTimes(n, a, b) == [k \in 1..n |-> 1 + ((a * k + b) % 13)]

\* the outcomes with these times: a request that takes 10 s or more is a
\* timeout, one that takes 7 s answers 500, the others answer 200
SeriesOutcomes(n, a, b) ==
  [k \in 1..n |->
     LET t == SeriesTimes(n, a, b)[k]
         endpoint == ENDPOINTS[1 + (k % 2)]
         param == randint(k - 1, RangeOf(endpoint)[1], RangeOf(endpoint)[2])
     IN IF t >= 10
        THEN ErrorOutcome(<<1, k - 1>>, endpoint, param, "ConnectTimeout", t)
        ELSE ResponseOutcome(<<1, k - 1>>, endpoint, param,
                             IF t = 7 THEN "500" ELSE "200", t)]

StatInit ==
  \E n \in 1..MaxSeries, a \in {1, 3, 5}, b \in {0, 4} :
    AfterOneBatch(SeriesOutcomes(n, a, b), 50)

StatNext ==
  \/ PrintOverall
  \/ PrintTimes
  \/ PrintEndpoints

\* the overall report of a run of one batch of up to MaxSeries requests
StatSpec == StatInit /\ [][StatNext]_vars

\* the state of stress_test(batch_size=Len(rs), iterations=1) when its only
\* batch, a single chunk that returned the outcomes rs, has left the chunk
\* loop of line 72
AfterChunks(rs, cap) ==
  /\ batch_size = Len(rs)
  /\ iterations = 1
  /\ MAX_WORKERS = cap
  /\ catalog = ENDPOINTS
  /\ pc = "merge"
  /\ it = 1
  /\ i = 0
  /\ j = cap
  /\ chunk_size = Len(rs)
  /\ futures = <<>>
  /\ results = rs
  /\ batch_success = 0
  /\ all_times = <<>>
  /\ success_count = 0
  /\ total_count = 0
  /\ endpoint_stats = <<>>
  /\ out = << Event("start", <<Len(rs), 1, cap>>), Event("header", <<1, 1>>) >>
  /\ raised = "none"
  /\ intAt = "none"
  /\ exit_code = {}

BatchInit ==
  \E n \in 1..MaxSeries, a \in {1, 3, 5}, b \in {0, 4} :
    AfterChunks(SeriesOutcomes(n, a, b), 50)

BatchNext ==
  \/ MergeBatch
  \/ PrintBatch
  \/ PrintSlowest
  \/ BatchTail
  \/ ForNext
  \/ StatNext

\* the merge and the reports of a run of one batch of up to MaxSeries requests
BatchSpec == BatchInit /\ [][BatchNext]_vars

\* ------------------------------------------------------------------------
\* Properties
\* ------------------------------------------------------------------------
Rids(rs) == {rs[k].rid : k \in 1..Len(rs)}

LastEvent(e) == Events(e)[Len(Events(e))]

\* the outcomes that exist: collected ones and those the futures hold
AllOutcomes ==
  {results[k] : k \in 1..Len(results)} \cup
  {futures[k].res[1] : k \in {m \in 1..Len(futures) : futures[m].res # <<>>}}

Started(f) == f.st \in {"running", "done", "failed"}

\* C1: for 1 <= MAX_WORKERS <= batch_size, when the chunk loop of a batch has
\* ended results holds exactly batch_size outcomes, one for each request
\* 0..batch_size-1 of the batch; and once a chunk is collected every request
\* the chunk issued has exactly one outcome in results, the one its worker
\* returned.
C1_ExactlyBOutcomes ==
  (1 <= MAX_WORKERS /\ MAX_WORKERS <= batch_size /\ intAt = "none") =>
    /\ pc = "merge" =>
         /\ Len(results) = batch_size
         /\ Rids(results) = {<<it, x>> : x \in 0..(batch_size - 1)}
    /\ pc \in {"pause", "exit_with"} =>
         \A k \in 1..Len(futures) :
           /\ Cardinality({m \in 1..Len(results) :
                             results[m].rid = futures[k].rid}) = 1
           /\ \E m \in 1..Len(results) : results[m] = futures[k].res[1]

C1_Witness ==
  /\ pc = "merge"
  /\ batch_size = 3
  /\ MAX_WORKERS = 2
  /\ \E a, b \in 1..Len(results) : results[a].success /\ results[b].error # <<>>

\* C2: the number of requests in flight never exceeds MAX_WORKERS.
C2_InFlightAtMostCap == Cardinality(InFlight) <= MAX_WORKERS

C2_Witness ==
  /\ batch_size = 3
  /\ MAX_WORKERS = 2
  /\ Cardinality(InFlight) = 2

\* C4: whenever a request has been started, it is a request of the current
\* chunk of the current batch; every earlier batch has been merged into the
\* cumulative statistics and its summary printed; and every request of the
\* earlier chunks of the batch has its outcome in results.
C4_Sequential ==
  \A k \in 1..Len(futures) :
    Started(futures[k]) =>
      /\ futures[k].rid[1] = it
      /\ Len(Events("header")) = it
      /\ Len(Events("slowest")) = it - 1
      /\ total_count = (it - 1) * batch_size
      /\ Len(all_times) = total_count
      /\ futures[k].rid[2] >= j
      /\ futures[k].rid[2] < j + chunk_size
      /\ \A x \in 0..(j - 1) :
           \E m \in 1..Len(results) : results[m].rid = <<it, x>>

C4_Witness ==
  /\ InFlight # {}
  /\ it > 1 \/ j > 0

\* C6: a transport failure is never left uncaught: no future holds an
\* exception, no transport failure propagates, only an interrupt unwinds the
\* with block; a failed request has one outcome with success false, the
\* message and an elapsed time; and the batch still has all its outcomes.
C6_FailureIsolated ==
  /\ \A k \in 1..Len(futures) : futures[k].st # "failed"
  /\ raised \notin TransportErrors
  /\ pc = "unwind_with" => raised = "KeyboardInterrupt"
  /\ \A r \in AllOutcomes :
       r.status = "Error" =>
         /\ ~r.success
         /\ Len(r.error) = 1
         /\ r.error[1] \in TransportErrors
         /\ r.time >= 0
  /\ pc = "merge" => Len(results) = batch_size

C6_Witness ==
  /\ pc = "done"
  /\ iterations >= 2
  /\ Len(Events("header")) = iterations
  /\ \E l \in 1..Len(Events("slowest")[1].val) :
       Events("slowest")[1].val[l].kind = "error"

\* C9: an outcome is a success exactly when its status is 200; a transport
\* failure has status "Error", a message and success false; any other
\* outcome keeps its HTTP status and has no message; the success count of a
\* batch, computed and printed, is the number of its outcomes of status 200.
C9_SuccessIff200 ==
  /\ \A r \in AllOutcomes :
       /\ r.success <=> r.status = "200"
       /\ r.status \in HttpStatuses \cup {"Error"}
       /\ r.status = "Error" <=> r.error # <<>>
  /\ (pc = "print_batch" /\ intAt = "none") =>
       batch_success = Count(results, LAMBDA r : r.status = "200")
  /\ (pc \in {"slowest", "tail", "delay"} /\ intAt = "none") =>
       /\ LastEvent("rate").val.success =
            Count(results, LAMBDA r : r.status = "200")
       /\ LastEvent("rate").val.total = Len(results)

C9_Witness ==
  /\ pc = "slowest"
  /\ Len(results) = 3
  /\ LastEvent("rate").val.success = 1
  /\ \E a, b \in 1..3 : results[a].status = "500" /\ results[b].status = "Error"

HeadersBefore(k) == Cardinality({m \in 1..k : out[m].ev = "header"})

\* C3: in a run that no interrupt reaches, with batch_size >= 1 and
\* iterations >= 1, the inter-batch sleep is taken after each of the batches
\* 1..iterations-1 and never after batch number iterations, so that a
\* completed run has taken iterations-1 of them.
C3_DelayExceptAfterLast ==
  (intAt = "none" /\ batch_size >= 1 /\ iterations >= 1) =>
    /\ \A k \in 1..Len(out) :
         out[k].ev = "delay" => HeadersBefore(k) < iterations
    /\ (pc = "for" /\ it >= 1 /\ it < iterations) =>
         out[Len(out)].ev = "delay"
    /\ pc = "done" => Len(Events("delay")) = iterations - 1

\* C5: the reports never raise on an empty series: no ZeroDivisionError ends
\* the run, whatever batch_size and iterations are.
C5_NoRaiseOnEmpty == raised # "ZeroDivisionError" /\ pc # "crashed"

ReportEvents == {"overall", "overall_rate", "overall_times", "p95", "endpoints"}

C7_Stopped ==
  intAt \in BatchPcs =>
    /\ pc \in {"unwind_with", "stopped"}
    /\ exit_code \subseteq {0}
    /\ \A k \in 1..Len(out) : out[k].ev \notin ReportEvents
    /\ pc = "unwind_with" => ENABLED Next
    /\ pc = "stopped" =>
         /\ exit_code = {0}
         /\ raised = "none"
         /\ out[Len(out)].ev = "stop"
         /\ Len(Events("stop")) = 1

C7_Quiet ==
  intAt \in BatchPcs =>
    \/ out' = out
    \/ out' = Append(out, Event("stop", 0))

C8_Batches ==
  LET h == Events("header") IN
  /\ Len(h) <= iterations
  /\ \A k \in 1..Len(h) : h[k].val = <<k, iterations>>
  /\ Len(Events("overall")) <= 1
  /\ pc \in ReportPcs \cup {"done"} =>
       /\ Len(h) = iterations
       /\ Len(Events("slowest")) = iterations
       /\ total_count = iterations * batch_size
  /\ pc = "done" =>
       /\ Len(Events("overall")) = 1
       /\ Len(Events("endpoints")) = 1
       /\ exit_code = {0}

\* C8: a run with iterations >= 1 and batch_size >= 1 that no interrupt
\* reaches, in which every thread that can step does and every request
\* returns, ends in the state done; the batches it started are numbered 1, 2,
\* ... in order, there are never more than iterations of them, and when the
\* overall report is printed, once, there have been exactly iterations of
\* them, whatever the loop of line 102 assigned to i.
C8_NBatchesThenDone ==
  /\ []C8_Batches
  /\ <>(pc = "done")

C8_Witness ==
  /\ pc = "done"
  /\ iterations = 2
  /\ i = 0
  /\ Len(Events("header")) = 2

\* the states of Spec after a single batch of one chunk are those StatSpec
\* starts from
AfterOneBatchInSpec ==
  (pc = "report" /\ iterations = 1 /\ batch_size >= 1 /\ intAt = "none"
     /\ MAX_WORKERS >= batch_size) => AfterOneBatch(results, MAX_WORKERS)

\* C10: when the overall report has printed the 95th percentile of a
\* non-empty series of length n, the value is the element of rank idx
\* (0-based) of the series in ascending order, where idx is the integer with
\* idx <= 0.95 * n < idx + 1; idx is below n, no IndexError is raised, and
\* the report of a non-empty series does print the value.
C10_P95NearestRank ==
  /\ raised # "IndexError"
  /\ (pc \in {"report_endpoints", "done"} /\ intAt = "none"
        /\ all_times # <<>>) =>
       /\ Len(Events("p95")) = 1
       /\ LET v == LastEvent("p95").val
              n == Len(all_times)
              below == Cardinality({k \in 1..n : all_times[k] < v})
              upto == Cardinality({k \in 1..n : all_times[k] <= v})
          IN \E idx \in 0..(n - 1) :
               /\ 100 * idx <= 95 * n
               /\ 95 * n < 100 * (idx + 1)
               /\ below <= idx
               /\ idx < upto

C10_Witness ==
  /\ pc = "done"
  /\ Len(all_times) = 21
  /\ LastEvent("p95").val < MaxSeq(all_times)

\* C11: with MAX_WORKERS <= 0 or an empty catalog the run is rejected before
\* a batch begins: no batch header is printed and no worker runs a request
\* function.
C11_ConfigErrorBeforeAnyBatch ==
  (MAX_WORKERS <= 0 \/ catalog = <<>>) =>
    /\ Events("header") = <<>>
    /\ \A k \in 1..Len(futures) : ~Started(futures[k])

\* the value v has rank r (1-based) in the series ts put in ascending order
HasRank(ts, v, r) ==
  /\ \E k \in 1..Len(ts) : ts[k] = v
  /\ Cardinality({k \in 1..Len(ts) : ts[k] < v}) < r
  /\ r <= Cardinality({k \in 1..Len(ts) : ts[k] <= v})

\* C12: when the overall report has printed the statistics of a non-empty
\* series D, min is the least and max the greatest value of D,
\* min <= median <= max, and median is the middle value of D in ascending
\* order for an odd length and the average of the two middle values for an
\* even length.
C12_MedianBetweenMinAndMax ==
  (pc \in {"report_endpoints", "done"} /\ intAt = "none"
     /\ all_times # <<>>) =>
    /\ Len(Events("overall_times")) = 1
    /\ LET st == LastEvent("overall_times").val
           n == Len(all_times)
       IN /\ \E k \in 1..n : all_times[k] = st.min
          /\ \E k \in 1..n : all_times[k] = st.max
          /\ \A k \in 1..n : st.min <= all_times[k] /\ all_times[k] <= st.max
          /\ st.min * st.median.den <= st.median.num
          /\ st.median.num <= st.max * st.median.den
          /\ IF n % 2 = 1
             THEN /\ st.median.den = 1
                  /\ HasRank(all_times, st.median.num, (n + 1) \div 2)
             ELSE /\ st.median.den = 2
                  /\ \E a, b \in {all_times[k] : k \in 1..n} :
                       /\ HasRank(all_times, a, n \div 2)
                       /\ HasRank(all_times, b, n \div 2 + 1)
                       /\ st.median.num = a + b

C12_Witness ==
  /\ pc = "done"
  /\ Len(all_times) % 2 = 0
  /\ LET st == LastEvent("overall_times").val
     IN /\ st.median.num % 2 = 1
        /\ st.min * 2 < st.median.num
        /\ st.median.num < st.max * 2

\* ceil(a / b) for b >= 1
Ceil(a, b) == (a + b - 1) \div b

\* C13: in a run that is not interrupted, a batch of B >= 1 requests with a
\* cap C >= 1 is processed as ceil(B/C) chunks in order: the chunks with
\* numbers 0 .. ceil(B/C) - 2 have exactly C requests, the last one has
\* B - C * (ceil(B/C) - 1) requests, which is between 1 and C; the requests
\* of chunk number c are the requests C*c .. C*c + size - 1 of the batch; when
\* the chunk loop is left exactly ceil(B/C) chunks were processed and the B
\* outcomes are held in request order; for B < C there is one chunk of size B.
C13_ChunkPartition ==
  (intAt = "none" /\ raised = "none" /\ batch_size >= 1 /\ MAX_WORKERS >= 1) =>
    LET n == Ceil(batch_size, MAX_WORKERS)
        last == batch_size - MAX_WORKERS * (n - 1)
    IN /\ last \in 1..MAX_WORKERS
       /\ pc \in WithPcs =>
            /\ j % MAX_WORKERS = 0
            /\ j \div MAX_WORKERS \in 0..(n - 1)
            /\ chunk_size = IF j \div MAX_WORKERS = n - 1 THEN last
                            ELSE MAX_WORKERS
            /\ Len(futures) <= chunk_size
            /\ \A k \in 1..Len(futures) : futures[k].rid = <<it, j + k - 1>>
            /\ batch_size < MAX_WORKERS => j = 0 /\ chunk_size = batch_size
       /\ pc \in {"collect", "pause", "exit_with"} =>
            Len(futures) = chunk_size
       /\ pc = "merge" =>
            /\ j = MAX_WORKERS * n
            /\ Len(results) = batch_size
            /\ \A k \in 1..Len(results) : results[k].rid = <<it, k - 1>>

C13_Witness ==
  /\ pc = "merge"
  /\ intAt = "none"
  /\ batch_size = 3
  /\ MAX_WORKERS = 2
  /\ j = 4
  /\ Len(results) = 3

\* C14: in a run that is not interrupted, the pause of line 79 is taken
\* after each chunk that another chunk follows and never after the last
\* chunk of a batch: a batch of B >= 1 requests with a cap C >= 1 has
\* ceil(B/C) - 1 pauses, none when it is a single chunk; while a pause is
\* taken every request of the chunk before it has returned and no request is
\* in flight.
C14_PauseBetweenChunks ==
  (intAt = "none" /\ raised = "none" /\ batch_size >= 1 /\ MAX_WORKERS >= 1) =>
    LET n == Ceil(batch_size, MAX_WORKERS)
        pauses == Len(Events("pause"))
        chunk == j \div MAX_WORKERS
    IN /\ pc = "pause" =>
            /\ chunk < n - 1
            /\ pauses = (it - 1) * (n - 1) + chunk
            /\ Len(futures) = chunk_size
            /\ \A k \in 1..Len(futures) : futures[k].st = "done"
            /\ InFlight = {}
       /\ pc = "exit_with" =>
            pauses = (it - 1) * (n - 1) + Min2(chunk + 1, n - 1)
       /\ pc \in {"chunk_next", "submit", "collect"} =>
            pauses = (it - 1) * (n - 1) + Min2(chunk, n - 1)
       /\ pc \in {"merge", "print_batch", "slowest", "tail", "delay"} =>
            pauses = it * (n - 1)
       /\ pc \in ReportPcs \cup {"done"} => pauses = iterations * (n - 1)

C14_Witness ==
  /\ pc = "pause"
  /\ intAt = "none"
  /\ batch_size = 3
  /\ MAX_WORKERS = 1
  /\ j = 1
  /\ Len(Events("pause")) = 1
  /\ it = 1

\* a step of a request worker: a work item is picked up, or returns
WorkerStep ==
  /\ Len(futures') = Len(futures)
  /\ \E k \in 1..Len(futures) :
       /\ futures[k].st \in {"queued", "running"}
       /\ futures'[k].st \in {"running", "done", "failed"}
       /\ futures'[k].st # futures[k].st

\* a step that writes all_times, success_count, total_count or
\* endpoint_stats; the end of the frame of stress_test is not a write
WritesCumulative ==
  /\ cumulative' # cumulative
  /\ pc' \notin {"stopped", "crashed"}

C15_Step ==
  /\ WritesCumulative =>
       /\ ~WorkerStep
       /\ pc = "merge"
       /\ pc' = "print_batch"
       /\ futures = <<>>
       /\ (batch_size >= 1 /\ MAX_WORKERS >= 1) => Len(results) = batch_size
       /\ Len(Events("header")) = it
       /\ Len(all_times') = Len(all_times) + Len(results)
  /\ WorkerStep => UNCHANGED <<results, cumulative, pc>>
  /\ InFlight # {} => UNCHANGED cumulative

\* C15: the cumulative statistics all_times, success_count, total_count and
\* endpoint_stats are written only by the controller, in the merge of lines
\* 81..92, when every chunk of the batch has been collected and before the
\* header of the next batch; a step of a request worker writes neither the
\* cumulative statistics nor the result list of the batch, and no step
\* changes the cumulative statistics while a request is in flight.
C15_OnlyControllerWrites == [][C15_Step]_vars

C15_Witness ==
  /\ pc = "print_batch"
  /\ intAt = "none"
  /\ it = 1
  /\ batch_size = 3
  /\ MAX_WORKERS = 2
  /\ Len(all_times) = 3
  /\ total_count = 3

\* the outcomes of the batch for the endpoint e
OfEndpoint(e) == {k \in 1..Len(results) : results[k].endpoint = e}

\* C16: in the report of a run of one batch, the success percentage of an
\* endpoint is 100 * (the number of its outcomes with an elapsed time below
\* 10 s) / (the number of its outcomes), whatever the success flags are: a
\* failed request below 10 s counts, a 200 that took 10 s or more does not.
C16_EndpointSuccessByTime ==
  (pc = "done" /\ intAt = "none" /\ iterations = 1 /\ results # <<>>) =>
    LET lines == LastEvent("endpoints").val
    IN /\ DOMAIN lines = {results[k].endpoint : k \in 1..Len(results)}
       /\ \A e \in DOMAIN lines :
            /\ lines[e].success.den = Cardinality(OfEndpoint(e))
            /\ lines[e].success.num =
                 100 * Cardinality({k \in OfEndpoint(e) : results[k].time < 10})

\* a failed request below 10 s and a 200 of 10 s on one endpoint, whose
\* percentage differs from the overall success rate
C16_Witness ==
  /\ pc = "done"
  /\ intAt = "none"
  /\ iterations = 1
  /\ \E k, m \in 1..Len(results) :
       /\ results[k].endpoint = results[m].endpoint
       /\ ~results[k].success /\ results[k].time < 10
       /\ results[m].success /\ results[m].time >= 10
       /\ LET line == LastEvent("endpoints").val[results[k].endpoint]
          IN line.success.num * total_count
               # 100 * success_count * line.success.den

\* the states of Spec when a single batch of one chunk has left the chunk
\* loop are those BatchSpec starts from
AfterChunksInSpec ==
  (pc = "merge" /\ iterations = 1 /\ batch_size >= 1 /\ intAt = "none"
     /\ MAX_WORKERS >= batch_size) =>
    /\ all_times = <<>> /\ success_count = 0 /\ total_count = 0
    /\ endpoint_stats = <<>> /\ batch_success = 0
    /\ AfterChunks(results, MAX_WORKERS)

\* the line l is how the outcome r is shown
ShownAs(r, l) ==
  /\ l.url = r.url
  /\ l.secs = r.time
  /\ r.success => l.mark = "ok" /\ l.kind = "time"
  /\ (~r.success /\ r.status = "Error") =>
       l.mark = "fail" /\ l.kind = "error" /\ <<l.text>> = r.error
  /\ (~r.success /\ r.status # "Error") =>
       l.mark = "fail" /\ l.kind = "status" /\ l.text = r.status

\* C17: the slowest list of a batch of B outcomes has min(5, B) lines, each
\* line shows an outcome of the batch, the elapsed times of the lines do not
\* increase, and they are the largest of the batch: for every v, the lines
\* slower than v are min(5, the outcomes slower than v). A transport failure
\* is shown with its error message, a failed response with its status code,
\* a success with its elapsed time.
C17_SlowestFive ==
  (pc \in {"tail", "for", "done"} \cup ReportPcs /\ results # <<>>) =>
    /\ Len(Events("slowest")) = 1
    /\ LET lines == LastEvent("slowest").val
       IN /\ Len(lines) = Min2(5, batch_size)
          /\ \A k \in 1..Len(lines) :
               \E m \in 1..Len(results) : ShownAs(results[m], lines[k])
          /\ \A k \in 1..(Len(lines) - 1) : lines[k].secs >= lines[k + 1].secs
          /\ \A v \in {0} \cup {results[m].time : m \in 1..Len(results)} :
               Cardinality({k \in 1..Len(lines) : lines[k].secs > v})
                 = Min2(5, Cardinality({m \in 1..Len(results) :
                                          results[m].time > v}))

\* six outcomes, five lines, with a line of each kind
C17_Witness ==
  /\ pc = "tail"
  /\ Len(results) = 6
  /\ LET lines == LastEvent("slowest").val
     IN /\ Len(lines) = 5
        /\ \A kind \in {"time", "error", "status"} :
             \E k \in 1..5 : lines[k].kind = kind

\* int(digits): the number that a sequence of decimal digits is
RECURSIVE Number(_)
Number(digits) ==
  IF digits = <<>> THEN 0
  ELSE 10 * Number(SubSeq(digits, 1, Len(digits) - 1))
         + (CHOOSE d \in 0..9 : DigitChars[d + 1] = digits[Len(digits)])

\* the number at the place of the replacement field when url is BASE_URL
\* followed by the template of endpoint with digits in that place, and -1
\* when url is not of this form
ParseParam(url, endpoint) ==
  LET parts == Parts(endpoint)
      body == Tail(url)
      P == {k \in 1..Len(parts) : parts[k] = Placeholder}
      p == CHOOSE k \in P : TRUE
      nd == Len(body) - (Len(parts) - 1)
      digits == SubSeq(body, p, p + nd - 1)
      Ds == {DigitChars[d] : d \in 1..10}
  IN IF /\ url # <<>> /\ url[1] = BASE_URL
        /\ Cardinality(P) = 1 /\ nd >= 1
        /\ \A k \in 1..(p - 1) : body[k] = parts[k]
        /\ \A k \in (p + 1)..Len(parts) : body[k + nd - 1] = parts[k]
        /\ \A k \in 1..nd : digits[k] \in Ds
        /\ (nd > 1 => digits[1] # "0")
     THEN Number(digits)
     ELSE 0 - 1

\* the parameter n is inside the range of the endpoint: that of its entry in
\* N_RANGES, or 1..100 when it has none
InRange(endpoint, n) ==
  /\ endpoint \in DOMAIN N_RANGES =>
       N_RANGES[endpoint][1] <= n /\ n <= N_RANGES[endpoint][2]
  /\ endpoint \notin DOMAIN N_RANGES => 1 <= n /\ n <= 100

\* C18: every request that a worker has sampled targets an endpoint template
\* of the catalog with a parameter inside the inclusive range of that
\* endpoint (1..100 for an endpoint without an entry in N_RANGES), and every
\* outcome has a url from which parsing against the template of its endpoint
\* recovers that parameter, a value inside the range.
C18_ParameterInRange ==
  /\ \A k \in 1..Len(futures) :
       futures[k].st \in {"running", "done"} =>
         /\ \E e \in 1..Len(catalog) : catalog[e] = futures[k].endpoint
         /\ InRange(futures[k].endpoint, futures[k].n)
         /\ futures[k].res # <<>> =>
              /\ futures[k].res[1].endpoint = futures[k].endpoint
              /\ ParseParam(futures[k].res[1].url, futures[k].endpoint)
                   = futures[k].n
  /\ \A r \in AllOutcomes :
       /\ \E e \in 1..Len(catalog) : catalog[e] = r.endpoint
       /\ InRange(r.endpoint, ParseParam(r.url, r.endpoint))

\* both ends of a range are drawn, with and without an entry in N_RANGES
C18_Witness ==
  /\ Len(results) = 2
  /\ results[1].endpoint = results[2].endpoint
  /\ LET e == results[1].endpoint
     IN /\ e \notin DOMAIN N_RANGES
        /\ ParseParam(results[1].url, e) = 1
        /\ ParseParam(results[2].url, e) = 100

\* the step in which an interrupt is delivered inside the with block of line
\* 74 while a request of the chunk is in flight
DeliveredInFlight ==
  /\ intAt = "none"
  /\ intAt' \in WithPcs
  /\ InFlight # {}

C19_Step ==
  DeliveredInFlight =>
    /\ pc' = "unwind_with"
    /\ Len(futures') = Len(futures)
    /\ \A k \in 1..Len(futures') : futures'[k].st # "queued"

\* C19: when an interrupt is delivered while requests of a chunk are in
\* flight, the controller only leaves the with block (no chunk and no batch
\* is started), no request is submitted, and no submitted request is left
\* that has yet to start: the requests that the exit waits for are those in
\* flight at the interrupt.
C19_NoNewRequestAfterInterrupt == [][C19_Step]_vars

\* the number of times that endpoint_stats holds for the endpoints of S
RECURSIVE StatsLen(_)
StatsLen(S) ==
  IF S = {} THEN 0
  ELSE LET e == CHOOSE x \in S : TRUE
       IN Len(endpoint_stats[e]) + StatsLen(S \ {e})

\* the number of batches that have been merged
Merged ==
  IF pc \in WithPcs \cup {"chunk_next", "merge", "unwind_with"} THEN it - 1
  ELSE it

C20_Accounts ==
  pc \notin {"stopped", "crashed"} =>
    /\ total_count = Merged * batch_size
    /\ total_count = Len(all_times)
    /\ total_count = StatsLen(DOMAIN endpoint_stats)
    /\ 0 <= success_count
    /\ success_count <= total_count
    /\ \A e \in DOMAIN endpoint_stats :
         /\ \E k \in 1..Len(catalog) : catalog[k] = e
         /\ endpoint_stats[e] # <<>>

C20_MergeStep ==
  (pc = "merge" /\ pc' = "print_batch") =>
    /\ Len(results) = batch_size
    /\ total_count' = total_count + batch_size
    /\ success_count' = success_count
         + Cardinality({k \in 1..Len(results) : results[k].success})
    /\ \A k \in 1..Len(results) :
         all_times'[Len(all_times) + k] = results[k].time
    /\ \A e \in DOMAIN endpoint_stats' :
         Len(endpoint_stats'[e]) =
           (IF e \in DOMAIN endpoint_stats THEN Len(endpoint_stats[e]) ELSE 0)
             + Cardinality({k \in 1..Len(results) : results[k].endpoint = e})

\* C20: when k batches of size B have been merged, total_count is k * B, the
\* length of all_times, and the sum of the lengths of the series of
\* endpoint_stats; every merge adds the number of outcomes of the batch with
\* success true to success_count, which stays between 0 and total_count, and
\* gives each endpoint the times of its outcomes; every key of endpoint_stats
\* is an endpoint template of the catalog.
C20_CumulativeAccounting == []C20_Accounts /\ [][C20_MergeStep]_vars

C20_Witness ==
  /\ pc = "report"
  /\ intAt = "none"
  /\ it = 3
  /\ total_count = 3
  /\ success_count = 2
  /\ Cardinality(DOMAIN endpoint_stats) = 2

====
